---- MODULE Spec2Model ----
(***************************************************************************)
(* Flutter Auto Import (src/src/extension.ts): the package quick pick      *)
(* session (debounced catalog builds, installed/all toggle, item select    *)
(* and item buttons), the flutter pub add/remove executor and the import   *)
(* editor.                                                                 *)
(*                                                                         *)
(* Text is a sequence of tokens: the literal pieces of the template        *)
(* strings of the source and the interpolated package names.  A query is   *)
(* a sequence of characters.                                               *)
(***************************************************************************)
EXTENDS Integers, Sequences, FiniteSets, TLC

VARIABLES
    variant,            \* "search": showPackageSearch, "suggest": checkAndShowPackageSuggestions
    query0,             \* the query the command was started with
    range0,             \* the range checkAndShowPackageSuggestions was started with
    open,               \* the quick pick is shown (not yet hidden and disposed)
    value,              \* quickPick.value
    showInstalledOnly,  \* the closure variable of the session
    filterIsOriginal,   \* quickPick.buttons[0] is still the filterButton object
    timeout,            \* the timer of debounce(updateItems, 500)
    builds,             \* updateItems invocations awaiting their packages
    items,              \* quickPick.items
    busy,               \* quickPick.busy
    manifest,           \* the dependencies of pubspec.yaml, in declaration order
    doc,                \* the text of the document of the active editor
    docVersion,         \* its version: the edits applied so far
    selection,          \* editor.selection
    hasEditor,          \* vscode.window.activeTextEditor is defined
    hasWorkspace,       \* vscode.workspace.workspaceFolders[0] is defined
    tasks,              \* the runFlutterPubAdd / runFlutterPubRemove / addImportStatement calls
    hist,               \* what has happened so far, read by the properties only
    revision,           \* the file whose fetchMatchingPackages is run
    pubspec,            \* pubspec.yaml, line by line, or NoFile
    registry,           \* what pub.dev answers to the search and to each detail request
    build,              \* the catalog build: one call of getInstalledPackages or fetchMatchingPackages
    details,            \* the calls of fetchPackageDetails, in the order they were made
    pubGetTimeout,      \* the timer of the onDidSaveTextDocument listener
    terminal,           \* the lines sent to the terminal "Flutter Pub Get"
    calls,              \* the calls of the providers and of checkAndShowPackageSuggestions
    activeTextEditor,   \* vscode.window.activeTextEditor, where the user may change it
    otherEditor         \* a second editor: the text and the version of its document

vars == <<variant, query0, range0, open, value, showInstalledOnly, filterIsOriginal,
          timeout, builds, items, busy, manifest, doc, docVersion, selection,
          hasEditor, hasWorkspace, tasks, hist,
          revision, pubspec, registry, build, details,
          pubGetTimeout, terminal, calls, activeTextEditor, otherEditor>>

\* what activate registers beside the commands of the session: the listener of
\* the saves and the providers
hostVars == <<pubGetTimeout, terminal, calls>>

\* the state of a catalog build looked at on its own (SpecCatalog)
catalogVars == <<revision, pubspec, registry, build, details>>

envVars == <<variant, query0, range0, hasEditor, hasWorkspace, hostVars,
             activeTextEditor, otherEditor>>

sessionVars == <<open, value, showInstalledOnly, filterIsOriginal, timeout, builds,
                 items, busy>>

-----------------------------------------------------------------------------
(* Bounds of the model *)

\* calls of the debounced updateItems one session may make
MaxCalls == 2

\* selections and item-button presses one session may dispatch
MaxTasks == 2

\* presses of the filter button one session may see
MaxToggles == 2

\* the delay handed to debounce, in ms
DebounceWait == 500

\* how far time may advance in one step, in ms
Delays == {250, 500}

Queries == {<< >>, <<"h">>}

\* the registry's packages, in relevance order
Registry == <<"http", "dio">>

Packages == {Registry[i] : i \in DOMAIN Registry}

Chars(name) ==
    CASE name = "http" -> <<"h", "t", "t", "p">>
      [] name = "dio"  -> <<"d", "i", "o">>
      [] OTHER         -> << >>

-----------------------------------------------------------------------------
(* Strings *)

\* String.prototype.includes
Includes(s, sub) ==
    \E i \in 0..(Len(s) - Len(sub)) :
        \A k \in 1..Len(sub) : s[i + k] = sub[k]

\* the number of places where sub occurs in s
Occurrences(s, sub) ==
    Cardinality({i \in 0..(Len(s) - Len(sub)) :
                    \A k \in 1..Len(sub) : s[i + k] = sub[k]})

\* `import 'package:${pkg}/${pkg}.dart';\n`
ImportStatement(pkg) ==
    <<"import '", "package:", pkg, "/", pkg, ".dart", "';", "\n">>

\* `package:${pkg}/${pkg}.dart`
ImportReference(pkg) ==
    <<"package:", pkg, "/", pkg, ".dart">>

-----------------------------------------------------------------------------
(* The catalog, as the session sees it *)

NoPkg == [name |-> "", isInstalled |-> FALSE, isImported |-> FALSE]

PkgInfo(name, installed, text) ==
    [name        |-> name,
     isInstalled |-> installed,
     isImported  |-> Includes(text, ImportReference(name))]

\* what GET /api/search?q=<query> answers: the packages whose name holds the query
RegistrySearch(query) ==
    SelectSeq(Registry, LAMBDA n : Includes(Chars(n), query))

IsDeclared(man, name) == \E i \in DOMAIN man : man[i] = name

\* fetchMatchingPackages, when the response has ended: the manifest and the
\* document are read at that moment
fetchMatchingPackages(query, man, text) ==
    LET hits == RegistrySearch(query)
    IN  [i \in 1..Len(hits) |-> PkgInfo(hits[i], IsDeclared(man, hits[i]), text)]

\* getInstalledPackages: the manifest and the document are read when it is called
getInstalledPackages(man, text) ==
    [i \in 1..Len(man) |-> PkgInfo(man[i], TRUE, text)]

\* the filter of an installed-only build
FilterByQuery(packages, query) ==
    IF query = << >> THEN packages
    ELSE SelectSeq(packages, LAMBDA p : Includes(Chars(p.name), query))

\* checkAndShowPackageSuggestions keeps the packages that still need an action
Available(packages) ==
    SelectSeq(packages, LAMBDA p : ~(p.isInstalled /\ p.isImported))

Placeholder(label) == <<[kind |-> "placeholder", label |-> label, pkg |-> NoPkg]>>

PackageRows(packages) ==
    [i \in 1..Len(packages) |->
        [kind |-> "package", label |-> packages[i].name, pkg |-> packages[i]]]

\* the rows updateItems writes once it has its packages; the label of the empty
\* list reads showInstalledOnly when the packages have arrived
RenderedItems(packages, installedOnlyNow) ==
    IF Len(packages) = 0
    THEN Placeholder(IF installedOnlyNow
                     THEN "No installed packages match your search"
                     ELSE "No packages found")
    ELSE PackageRows(packages)

-----------------------------------------------------------------------------
(* debounce *)

NoTimer == [pending |-> FALSE, args |-> << >>, left |-> 0]

\* debounce without its clearTimeout: a call made while a timer is pending is lost
DebouncedKeepsTimer(timer, args, wait) ==
    IF timer.pending THEN timer
    ELSE [pending |-> TRUE, args |-> args, left |-> wait]

\* the function debounce returns: clear the pending timer, set a new one
Debounced(timer, args, wait) ==
    [pending |-> TRUE, args |-> args, left |-> wait]

Due == timeout.pending /\ timeout.left = 0

-----------------------------------------------------------------------------
(* The import editor and the package manager *)

Stderrs == {<< >>, <<"version solving", " failed">>}

\* `${error}` of new Error(stderr)
ErrorToString(stderr) ==
    IF stderr = << >> THEN <<"Error">> ELSE <<"Error", ": ">> \o stderr

Msg(level, text) == [level |-> level, text |-> text]

MsgNoWorkspace == Msg("error", <<"Workspace folder not found">>)
MsgAddFailedNoStderr(stderr) ==
    Msg("error", <<"Failed to add package: ", "Error">>)
MsgAddFailed(stderr) ==
    Msg("error", <<"Failed to add package: ">> \o ErrorToString(stderr))
MsgRemoveFailed(stderr) ==
    Msg("error", <<"Failed to remove package: ">> \o ErrorToString(stderr))
MsgAdded(pkg) == Msg("info", <<"Package '", pkg, "' added and imported">>)
MsgRemoved(pkg) == Msg("info", <<"Package '", pkg, "' removed">>)
MsgImported(pkg) == Msg("info", <<"Imported package '", pkg, "'">>)
MsgAlreadyImported(pkg) == Msg("info", <<"Package '", pkg, "' is already imported">>)

NoRange == [from |-> 0, to |-> 0]

\* a range as the editor validates it against the text it edits
Clamp(range, text) ==
    LET f == IF range.from > Len(text) THEN Len(text) ELSE range.from
        t == IF range.to > Len(text) THEN Len(text) ELSE range.to
    IN  [from |-> f, to |-> IF t < f THEN f ELSE t]

\* editBuilder.delete(range)
DeleteRange(text, range) ==
    LET r == Clamp(range, text)
    IN  SubSeq(text, 1, r.from) \o SubSeq(text, r.to + 1, Len(text))

\* the edit without its insertion of the import statement
ApplyImportEditDeleteOnly(text, pkg, range, insert) ==
    DeleteRange(text, range)

\* the edit addImportStatement builds, applied as one edit: the range is deleted
\* and, when the import is missing, the statement is put at the start of line 0
ApplyImportEdit(text, pkg, range, insert) ==
    IF insert THEN ImportStatement(pkg) \o DeleteRange(text, range)
    ELSE DeleteRange(text, range)

\* where the editor's selection is once the edit is applied
SelectionAfter(text, pkg, range, insert) ==
    LET r   == Clamp(range, text)
        off == IF insert THEN Len(ImportStatement(pkg)) ELSE 0
    IN  [from |-> r.from + off, to |-> r.from + off]

\* a call of runFlutterPubAdd, runFlutterPubRemove or addImportStatement for the
\* package of record rec; exits and stderrs are what its processes have answered
Task(kind, origin, rec, withDoc, rng) ==
    [kind |-> kind, origin |-> origin, rec |-> rec, pkg |-> rec.name,
     withDoc |-> withDoc, range |-> rng, pc |-> "done", procs |-> << >>,
     exits |-> << >>, stderrs |-> << >>, msgs |-> << >>, progress |-> << >>,
     insert |-> FALSE, version |-> 0, edited |-> FALSE, target |-> "own"]

\* addImportStatement without its test of fileContent.includes(importStatement)
addImportStatementAlwaysInserts(t, editor, text, version) ==
    IF ~editor THEN [t EXCEPT !.pc = "done"]
    ELSE [t EXCEPT !.pc = "edit", !.insert = TRUE, !.version = version]

\* addImportStatement up to its await of editor.edit
addImportStatement(t, editor, text, version) ==
    IF ~editor THEN [t EXCEPT !.pc = "done"]
    ELSE [t EXCEPT !.pc = "edit",
                   !.insert = ~Includes(text, ImportStatement(t.pkg)),
                   !.version = version]

\* the titles of the progress notifications of withProgress
ProgressAdding(pkg) == <<"Adding package ", pkg, "...">>
ProgressRemoving(pkg) == <<"Removing package ", pkg, "...">>

\* runFlutterPubAdd without its test of cwd
runFlutterPubAddWithoutCwd(t, workspace) ==
    [t EXCEPT !.pc = "add", !.procs = <<"pub add">>,
              !.progress = <<ProgressAdding(t.pkg)>>]

\* runFlutterPubAdd up to its first await: the add sub-command is started
runFlutterPubAdd(t, workspace) ==
    IF ~workspace THEN [t EXCEPT !.pc = "done", !.msgs = <<MsgNoWorkspace>>]
    ELSE [t EXCEPT !.pc = "add", !.procs = <<"pub add">>,
                   !.progress = <<ProgressAdding(t.pkg)>>]

\* runFlutterPubRemove up to its first await: the remove sub-command is started
runFlutterPubRemove(t, workspace) ==
    IF ~workspace THEN [t EXCEPT !.pc = "done", !.msgs = <<MsgNoWorkspace>>]
    ELSE [t EXCEPT !.pc = "remove", !.procs = <<"pub remove">>,
                   !.progress = <<ProgressRemoving(t.pkg)>>]

\* the first exec's callback without its check of err
AfterFirstExecIgnoringCode(t, code, stderr) ==
    [t EXCEPT !.pc = "get", !.procs = @ \o <<"pub get">>]

\* the first exec has called back
AfterFirstExec(t, code, stderr) ==
    IF code # 0
    THEN [t EXCEPT !.pc = "done",
                   !.msgs = @ \o <<IF t.kind = "add" THEN MsgAddFailed(stderr)
                                   ELSE MsgRemoveFailed(stderr)>>]
    ELSE [t EXCEPT !.pc = "get", !.procs = @ \o <<"pub get">>]

\* the callback of flutter pub get without its check of err
AfterPubGetIgnoringCode(t, code, stderr, editor, text, version) ==
    IF t.kind = "remove"
    THEN [t EXCEPT !.pc = "done", !.msgs = @ \o <<MsgRemoved(t.pkg)>>]
    ELSE IF t.withDoc /\ editor
    THEN addImportStatement(t, editor, text, version)
    ELSE [t EXCEPT !.pc = "done", !.msgs = @ \o <<MsgAdded(t.pkg)>>]

\* the exec of flutter pub get has called back
AfterPubGet(t, code, stderr, editor, text, version) ==
    IF code # 0
    THEN [t EXCEPT !.pc = "done",
                   !.msgs = @ \o <<IF t.kind = "add" THEN MsgAddFailed(stderr)
                                   ELSE MsgRemoveFailed(stderr)>>]
    ELSE IF t.kind = "remove"
    THEN [t EXCEPT !.pc = "done", !.msgs = @ \o <<MsgRemoved(t.pkg)>>]
    ELSE IF t.withDoc /\ editor
    THEN addImportStatement(t, editor, text, version)
    ELSE [t EXCEPT !.pc = "done", !.msgs = @ \o <<MsgAdded(t.pkg)>>]

\* addImportStatement reporting "Imported package" in both of its branches
AfterEditAlwaysImported(t, applied) ==
    [t EXCEPT !.pc = "done",
              !.edited = applied,
              !.msgs = @ \o <<MsgImported(t.pkg)>>
                         \o (IF t.kind = "add" THEN <<MsgAdded(t.pkg)>> ELSE << >>)]

\* editor.edit has settled: addImportStatement reports, and runFlutterPubAdd after it
AfterEdit(t, applied) ==
    [t EXCEPT !.pc = "done",
              !.edited = applied,
              !.msgs = @ \o <<IF t.insert THEN MsgImported(t.pkg)
                              ELSE MsgAlreadyImported(t.pkg)>>
                         \o (IF t.kind = "add" THEN <<MsgAdded(t.pkg)>> ELSE << >>)]

\* the manifest once flutter pub add / remove has exited with code zero
ManifestAfter(man, kind, pkg) ==
    IF kind = "add"
    THEN IF IsDeclared(man, pkg) THEN man ELSE Append(man, pkg)
    ELSE SelectSeq(man, LAMBDA n : n # pkg)

-----------------------------------------------------------------------------
(* pubspec.yaml and the two ways it is read *)

\* an optional field that is not set (undefined)
Absent == "<absent>"

\* pubspec.yaml as it is on disk: fs.existsSync(pubspecPath) and the lines read
File(lines) == [exists |-> TRUE, lines |-> lines]

NoFile == [exists |-> FALSE, lines |-> << >>]

\* a line of pubspec.yaml: indent levels of two spaces, the key before the
\* colon and the text after it, trimmed; a line that is no `key: value` line
\* has the key ""
Line(indent, key, rest) == [indent |-> indent, key |-> key, rest |-> rest]

\* an unclosed flow mapping: yaml.load throws on it
BrokenLine == Line(0, "", "{")

\* String.prototype.toLowerCase on the names of the model
Lower(name) == IF name = "Http" THEN "http" ELSE name

RECURSIVE Flatten(_)
Flatten(ps) == IF ps = << >> THEN << >> ELSE Head(ps) \o Flatten(Tail(ps))

\* the sequences of length at most n of distinct members of S
DistinctSeqs(S, n) ==
    {q \in UNION {[1..k -> S] : k \in 0..n} :
        \A i, j \in DOMAIN q : i # j => q[i] # q[j]}

DependencyBlocks ==
    { <<Line(1, "Http", "^1.0.0")>>,
      <<Line(1, "json_ext", "^1.0.0")>>,
      <<Line(1, "flutter", ""), Line(2, "sdk", "flutter")>> }

\* dependencies declared in one manifest of the model
MaxDependencies == 2

\* no dependencies section, or the section with its entries
DependencySections ==
    {<< >>} \cup
    { <<Line(0, "dependencies", "")>> \o Flatten(bs) :
        bs \in DistinctSeqs(DependencyBlocks, MaxDependencies) }

TailBlock ==
    << Line(0, "dev_dependencies", ""), Line(1, "test", "^1.0.0"),
       Line(0, "flutter", ""), Line(1, "uses-material-design", "true") >>

Pubspecs ==
    {NoFile, File(<< >>)} \cup
    { File(<<Line(0, "name", "app")>> \o deps \o tail \o broken) :
        deps \in DependencySections,
        tail \in {<< >>, TailBlock},
        broken \in {<< >>, <<BrokenLine>>} }

\* yaml.load returns (it throws on a line it cannot read)
YamlLoads(lines) == \A i \in DOMAIN lines : lines[i] # BrokenLine

\* the line of the top-level key, 0 when the document has no such key
TopLevelKey(lines, key) ==
    IF \E i \in DOMAIN lines : lines[i].indent = 0 /\ lines[i].key = key
    THEN CHOOSE i \in DOMAIN lines :
            /\ lines[i].indent = 0 /\ lines[i].key = key
            /\ \A j \in 1..(i - 1) : ~(lines[j].indent = 0 /\ lines[j].key = key)
    ELSE 0

\* the last line of the block that starts at line i
BlockEnd(lines, i) ==
    CHOOSE j \in i..Len(lines) :
        /\ \A k \in (i + 1)..j : lines[k].indent > lines[i].indent
        /\ j < Len(lines) => lines[j + 1].indent <= lines[i].indent

\* the value yaml.load gives the key of line i: the string after the colon, a
\* mapping when indented lines follow, null when nothing does
YamlValue(lines, i) ==
    IF lines[i].rest # "" THEN [type |-> "string", text |-> lines[i].rest]
    ELSE IF BlockEnd(lines, i) > i THEN [type |-> "object", text |-> ""]
    ELSE [type |-> "null", text |-> ""]

\* pubspec.dependencies of the loaded document: whether the key is there, its
\* value, and Object.entries of it, in the order of the file
YamlDependencies(lines) ==
    LET d == TopLevelKey(lines, "dependencies")
    IN  IF d = 0 THEN [has |-> FALSE, type |-> "undefined", entries |-> << >>]
        ELSE LET idx == SelectSeq([k \in 1..(BlockEnd(lines, d) - d) |-> d + k],
                                  LAMBDA k : lines[k].indent = 1)
             IN  [has     |-> TRUE,
                  type    |-> YamlValue(lines, d).type,
                  entries |-> [n \in 1..Len(idx) |->
                                  [name  |-> lines[idx[n]].key,
                                   value |-> YamlValue(lines, idx[n])]]]

\* the lines the pattern /^\s*([a-zA-Z0-9_-]+):\s*(.*)/ matches, as [key, rest]
MatchedLines(lines) ==
    LET ms == SelectSeq(lines, LAMBDA l : l.key # "")
    IN  [n \in 1..Len(ms) |-> [name |-> ms[n].key, rest |-> ms[n].rest]]

Names(entries) == {entries[n].name : n \in DOMAIN entries}

-----------------------------------------------------------------------------
(* The registry and the two catalog builders *)

\* the text a missing description is replaced by
Sentinel == "No description available"

\* the characters of the names and descriptions of the model, in lower case
LowerChars(s) ==
    CASE s \in {"http", "Http"} -> <<"h", "t", "t", "p">>
      [] s = "json_ext"         -> <<"j", "s", "o", "n", "_", "e", "x", "t">>
      [] s = "test"             -> <<"t", "e", "s", "t">>
      [] s = "flutter"          -> <<"f", "l", "u", "t", "t", "e", "r">>
      [] s = "sdk"              -> <<"s", "d", "k">>
      [] s = "name"             -> <<"n", "a", "m", "e">>
      [] s = "HTTP client"      -> <<"h", "t", "t", "p", " ", "c", "l", "i", "e", "n", "t">>
      [] s = "Test framework"   -> <<"t", "e", "s", "t", " ", "f", "r", "a", "m", "e", "w",
                                     "o", "r", "k">>
      [] s = "A package"        -> <<"a", " ", "p", "a", "c", "k", "a", "g", "e">>
      [] s = "dependencies"     -> <<"d", "e", "p", "e", "n", "d", "e", "n", "c", "i", "e",
                                     "s">>
      [] s = "dev_dependencies" -> <<"d", "e", "v", "_", "d", "e", "p", "e", "n", "d", "e",
                                     "n", "c", "i", "e", "s">>
      [] s = "uses-material-design" ->
                                   <<"u", "s", "e", "s", "-", "m", "a", "t", "e", "r", "i",
                                     "a", "l", "-", "d", "e", "s", "i", "g", "n">>
      [] s = Sentinel           -> <<"n", "o", " ", "d", "e", "s", "c", "r", "i", "p", "t",
                                     "i", "o", "n", " ", "a", "v", "a", "i", "l", "a", "b",
                                     "l", "e">>
      [] OTHER                  -> <<"-">>

\* a package of the response to GET /api/search
Hit(package, description) ==
    [package |-> package, description |-> description, latestVersion |-> Absent]

\* the slice of the search results that is used
MaxHits == 10

FewHits == << Hit("http", Absent), Hit("test", "Test framework"), Hit("flutter", "") >>

ManyHits ==
    << Hit("http", "HTTP client"), Hit("p02", Absent), Hit("p03", Absent),
       Hit("p04", Absent), Hit("p05", Absent), Hit("p06", Absent), Hit("p07", Absent),
       Hit("p08", Absent), Hit("p09", Absent), Hit("p10", Absent), Hit("p11", Absent) >>

\* what the registry holds: the packages a search finds, in relevance order, and
\* how the detail requests go
Registries ==
    [hits : {<< >>, <<Hit("http", "HTTP client")>>, FewHits},
     detail : {"up", "flaky", "cut"}]
        \cup [hits : {ManyHits}, detail : {"flaky", "cut"}]

\* how the request GET /api/packages/<name> goes: the request fails ("error"),
\* the status is not 200 ("status"), the body is no JSON ("invalid"), the
\* connection is closed before the body has ended ("aborted"), the body has no
\* description ("bare"), or the body is complete ("ok")
DetailOutcome(reg, name) ==
    IF reg.detail = "up" THEN "ok"
    ELSE CASE name \in {"http", "Http"}    -> "error"
           [] name = "test"                -> "invalid"
           [] name \in {"json_ext", "p02"} -> "ok"
           [] name \in {"name", "p03"}     -> "bare"
           [] name \in {"flutter", "p04"}  -> IF reg.detail = "cut" THEN "aborted"
                                              ELSE "bare"
           [] OTHER                        -> "status"

\* the latest release the registry knows of a package
Latest(name) ==
    [description |-> CASE name \in {"http", "Http"} -> "HTTP client"
                       [] name = "test"            -> "Test framework"
                       [] OTHER                    -> "A package",
     latestVersion |-> "2.0.0"]

\* the empty object fetchPackageDetails resolves to when it has no data
NoDetails == [description |-> Absent, latestVersion |-> Absent]

\* a call of fetchPackageDetails: the state of its request and of its promise
DetailFetch(name) ==
    [name |-> name, net |-> "sent", promise |-> "pending", value |-> NoDetails]

\* fetchPackageDetails: the request fails, or the response arrives
OnDetailResponse(f, outcome) ==
    IF outcome \in {"error", "status"}
    THEN [f EXCEPT !.net = "closed", !.promise = "resolved", !.value = NoDetails]
    ELSE [f EXCEPT !.net = "receiving"]

\* fetchPackageDetails letting the error of JSON.parse reject the promise
OnDetailEndRejects(f, outcome) ==
    IF outcome = "aborted" THEN [f EXCEPT !.net = "closed"]
    ELSE IF outcome = "invalid"
    THEN [f EXCEPT !.net = "closed", !.promise = "rejected"]
    ELSE [f EXCEPT !.net = "closed", !.promise = "resolved",
                   !.value = IF outcome = "bare"
                             THEN [Latest(f.name) EXCEPT !.description = Absent]
                             ELSE Latest(f.name)]

\* fetchPackageDetails: the body has ended and is parsed; when the connection
\* is closed before that, the response emits 'aborted' and 'error', the request
\* emits no 'error', and no handler of fetchPackageDetails runs
OnDetailEnd(f, outcome) ==
    IF outcome = "aborted" THEN [f EXCEPT !.net = "closed"]
    ELSE IF outcome = "invalid"
    THEN [f EXCEPT !.net = "closed", !.promise = "resolved", !.value = NoDetails]
    ELSE [f EXCEPT !.net = "closed", !.promise = "resolved",
                   !.value = IF outcome = "bare"
                             THEN [Latest(f.name) EXCEPT !.description = Absent]
                             ELSE Latest(f.name)]

\* `x || "No description available"`
OrSentinel(description) ==
    IF description \in {Absent, ""} THEN Sentinel ELSE description

\* a record of getInstalledPackages that is installed only when the registry
\* knows the package
InstalledRecordIfKnown(entry, det, text) ==
    [name          |-> entry.name,
     description   |-> OrSentinel(det.description),
     isInstalled   |-> det.latestVersion # Absent,
     isImported    |-> Includes(text, ImportReference(entry.name)),
     version       |-> entry.version,
     latestVersion |-> det.latestVersion]

\* a record of getInstalledPackages
InstalledRecord(entry, det, text) ==
    [name          |-> entry.name,
     description   |-> OrSentinel(det.description),
     isInstalled   |-> TRUE,
     isImported    |-> Includes(text, ImportReference(entry.name)),
     version       |-> entry.version,
     latestVersion |-> det.latestVersion]

\* the loop of getInstalledPackages skipping the entries whose versionSpec is
\* no string
StructuredEntriesStringsOnly(lines) ==
    LET d  == YamlDependencies(lines)
        es == SelectSeq(d.entries, LAMBDA e : e.value.type = "string")
    IN  IF d.type = "object"
        THEN [n \in 1..Len(es) |-> [name |-> es[n].name, version |-> es[n].value.text]]
        ELSE << >>

\* Object.entries(pubspec.dependencies) with the versionSpec each record gets
StructuredEntries(lines) ==
    LET d == YamlDependencies(lines)
    IN  IF d.type = "object"
        THEN [n \in 1..Len(d.entries) |->
                [name    |-> d.entries[n].name,
                 version |-> IF d.entries[n].value.type = "string"
                             THEN d.entries[n].value.text ELSE Absent]]
        ELSE << >>

\* the lines the catch block of getInstalledPackages makes records of
FallbackEntries(lines) ==
    LET ms == MatchedLines(lines)
    IN  [n \in 1..Len(ms) |-> [name |-> ms[n].name, version |-> ms[n].rest]]

\* the set installedPackages of fetchMatchingPackages in src/src/extension.ts:
\* Object.keys throws on `dependencies:` without a value, inside the try
InstalledNamesExtension(file) ==
    IF ~file.exists \/ file.lines = << >> THEN {}
    ELSE LET d == YamlDependencies(file.lines)
         IN  IF YamlLoads(file.lines) /\ ~(d.has /\ d.type = "null")
             THEN {Lower(n) : n \in Names(d.entries)}
             ELSE {Lower(n) : n \in Names(MatchedLines(file.lines))}

\* the set installedPackages of fetchMatchingPackages in part_000
InstalledNamesRefactored(file) ==
    IF ~file.exists \/ file.lines = << >> THEN {}
    ELSE IF YamlLoads(file.lines)
         THEN {Lower(n) : n \in Names(StructuredEntries(file.lines))}
         ELSE {Lower(n) : n \in Names(MatchedLines(file.lines))}

\* a record of fetchMatchingPackages: description and latestVersion come from
\* the search result in src/src/extension.ts, from the detail fetch in part_000
SearchRecord(hit, description, latest, installedNames, text) ==
    [name          |-> hit.package,
     description   |-> OrSentinel(description),
     isInstalled   |-> Lower(hit.package) \in installedNames,
     isImported    |-> Includes(text, ImportReference(hit.package)),
     version       |-> Absent,
     latestVersion |-> latest]

\* the search results used without the slice
SliceHitsAll(hits) == hits

\* results.packages?.slice(0, 10)
SliceHits(hits) == SubSeq(hits, 1, IF Len(hits) < MaxHits THEN Len(hits) ELSE MaxHits)

\* the filter of updateItems on the installed packages
FilterInstalled(packages, query) ==
    IF query = << >> THEN packages
    ELSE SelectSeq(packages, LAMBDA p :
            \/ Includes(LowerChars(p.name), query)
            \/ Includes(LowerChars(p.description), query))

\* a catalog build that has not started
Build0 ==
    [pc |-> "idle", mode |-> "all", query |-> << >>, fileContent |-> << >>,
     file |-> NoFile, source |-> << >>, next |-> 0, inCatch |-> FALSE,
     packages |-> << >>, requests |-> 0, response |-> "none", hits |-> << >>,
     installedNames |-> {}, result |-> << >>]

\* the state of the variables of the catalog build in the specifications that
\* do not run it
CatalogIdle ==
    /\ revision = "extension.ts"
    /\ pubspec = NoFile
    /\ registry = [hits |-> << >>, detail |-> "up"]
    /\ build = Build0
    /\ details = << >>

\* no document has been saved, no provider has been called, and the editor of
\* the document is the only one
HostIdle ==
    /\ pubGetTimeout = [pending |-> FALSE, left |-> 0]
    /\ terminal = << >>
    /\ calls = << >>
    /\ activeTextEditor = "own"
    /\ otherEditor = [text |-> << >>, version |-> 0]

-----------------------------------------------------------------------------
(* The session *)

StartDocs == { <<"word", "\n">>, ImportStatement("http") \o <<"word", "\n">> }

StartManifests == { << >>, <<"http">> }

\* the selection the command was run on: the word
WordRange(text) == [from |-> Len(text) - 2, to |-> Len(text) - 1]

Hist0 ==
    [calls |-> 1, bursts |-> 1, sinceCall |-> 0, lastArgs |-> << >>,
     started |-> 0, fireOK |-> TRUE, maxCompleted |-> 0, itemsBy |-> 0,
     startedClosed |-> FALSE, wroteClosed |-> FALSE, toggles |-> 0,
     cleared |-> FALSE]

\* a call of the debounced updateItems, as the history records it
Called(h, args) ==
    [h EXCEPT !.calls = @ + 1,
              !.bursts = IF timeout.pending THEN @ ELSE @ + 1,
              !.sinceCall = 0,
              !.lastArgs = args,
              !.cleared = FALSE]

\* the state once the command has shown the quick pick and made its first call
\* of updateItems
Init ==
    /\ variant \in {"search", "suggest"}
    /\ doc \in StartDocs
    /\ manifest \in StartManifests
    /\ hasEditor \in BOOLEAN
    /\ hasWorkspace \in BOOLEAN
    /\ query0 \in Queries
    /\ variant = "suggest" =>
          /\ hasEditor
          /\ query0 # << >>
          /\ Len(Available(fetchMatchingPackages(query0, manifest, doc))) > 0
    /\ range0 = WordRange(doc)
    /\ selection = WordRange(doc)
    /\ docVersion = 0
    /\ open = TRUE
    /\ value = query0
    /\ showInstalledOnly = FALSE
    /\ filterIsOriginal = TRUE
    /\ timeout = Debounced(NoTimer, query0, DebounceWait)
    /\ builds = {}
    /\ items = << >>
    /\ busy = FALSE
    /\ tasks = << >>
    /\ hist = [Hist0 EXCEPT !.lastArgs = query0]
    /\ CatalogIdle
    /\ HostIdle

\* onDidChangeValue: the user changes the text of the input box
TextChange(q) ==
    /\ open /\ ~Due
    /\ q # value
    /\ hist.calls < MaxCalls
    /\ value' = q
    /\ timeout' = Debounced(timeout, q, DebounceWait)
    /\ hist' = Called(hist, q)
    /\ UNCHANGED <<envVars, catalogVars, open, showInstalledOnly, filterIsOriginal, builds, items,
                   busy, manifest, doc, docVersion, selection, tasks>>

\* onDidTriggerButton: the filter button of the quick pick is pressed
Toggle ==
    /\ open /\ ~Due
    /\ hist.toggles < MaxToggles
    /\ IF variant = "search" \/ filterIsOriginal
       THEN /\ hist.calls < MaxCalls
            /\ showInstalledOnly' = ~showInstalledOnly
            /\ filterIsOriginal' = FALSE
            /\ timeout' = Debounced(timeout, value, DebounceWait)
            /\ hist' = [Called(hist, value) EXCEPT !.toggles = @ + 1]
       ELSE \* the button pressed is not the filterButton object any more
            /\ hist' = [hist EXCEPT !.toggles = @ + 1]
            /\ UNCHANGED <<showInstalledOnly, filterIsOriginal, timeout>>
    /\ UNCHANGED <<envVars, catalogVars, open, value, builds, items, busy, manifest, doc,
                   docVersion, selection, tasks>>

\* time passes; a timer that is due runs before more time passes
Advance(d) ==
    /\ timeout.pending /\ d <= timeout.left
    /\ timeout' = [timeout EXCEPT !.left = @ - d]
    /\ hist' = [hist EXCEPT !.sinceCall =
                    IF @ + d > DebounceWait THEN DebounceWait ELSE @ + d]
    /\ UNCHANGED <<envVars, catalogVars, open, value, showInstalledOnly, filterIsOriginal, builds,
                   items, busy, manifest, doc, docVersion, selection, tasks>>

\* the query a build searches the registry with
SearchQuery(q) ==
    IF variant = "suggest" /\ q = << >> THEN query0 ELSE q

\* the packages of a build that takes the manifest the session started with to
\* be empty, whatever pubspec.yaml holds when the response ends
BuildPackagesFromCache(b) ==
    LET packages == IF b.installedOnly THEN FilterByQuery(b.snapshot, b.query)
                    ELSE fetchMatchingPackages(SearchQuery(b.query), << >>, doc)
    IN  IF variant = "suggest" /\ ~showInstalledOnly THEN Available(packages)
        ELSE packages

\* the packages of a build, once they have arrived
\* (checkAndShowPackageSuggestions reads showInstalledOnly again for its filter)
BuildPackages(b) ==
    LET packages == IF b.installedOnly THEN FilterByQuery(b.snapshot, b.query)
                    ELSE fetchMatchingPackages(SearchQuery(b.query), manifest, doc)
    IN  IF variant = "suggest" /\ ~showInstalledOnly THEN Available(packages)
        ELSE packages

\* the timer of debounce fires: updateItems(query) runs up to its first await
Fire ==
    /\ Due
    /\ timeout' = NoTimer
    /\ LET gen == hist.started + 1
           b   == [gen |-> gen, query |-> timeout.args, whileOpen |-> open,
                   installedOnly |-> showInstalledOnly,
                   snapshot |-> IF showInstalledOnly
                                THEN getInstalledPackages(manifest, doc)
                                ELSE << >>]
           h   == [hist EXCEPT !.started = gen,
                               !.fireOK = @ /\ hist.sinceCall >= DebounceWait
                                            /\ timeout.args = hist.lastArgs,
                               !.startedClosed = @ \/ ~open]
       IN  IF variant = "search" /\ ~hasEditor
           THEN \* no document: the placeholder is written and the call returns
                /\ items' = Placeholder("No active editor")
                /\ busy' = FALSE
                /\ builds' = builds
                /\ hist' = [h EXCEPT !.itemsBy = gen, !.maxCompleted = gen]
           ELSE IF showInstalledOnly /\ Len(manifest) = 0
           THEN \* no dependency: nothing is awaited from the network
                /\ items' = RenderedItems(<< >>, showInstalledOnly)
                /\ busy' = FALSE
                /\ builds' = builds
                /\ hist' = [h EXCEPT !.itemsBy = gen, !.maxCompleted = gen]
           ELSE /\ busy' = TRUE
                /\ builds' = builds \cup {b}
                /\ items' = items
                /\ hist' = h
    /\ UNCHANGED <<envVars, catalogVars, open, value, showInstalledOnly, filterIsOriginal,
                   manifest, doc, docVersion, selection, tasks>>

\* the packages of build b arrive (ok), or its search fails: updateItems runs
\* to its end
Complete(b, ok) ==
    /\ b \in builds
    /\ ok \/ ~b.installedOnly
    /\ builds' = builds \ {b}
    /\ items' = IF ok THEN RenderedItems(BuildPackages(b), showInstalledOnly)
                ELSE Placeholder("Error fetching packages")
    /\ busy' = FALSE
    /\ hist' = [hist EXCEPT !.itemsBy = b.gen,
                            !.maxCompleted = IF b.gen > @ THEN b.gen ELSE @,
                            !.wroteClosed = @ \/ (b.whileOpen /\ ~open)]
    /\ UNCHANGED <<envVars, catalogVars, open, value, showInstalledOnly, filterIsOriginal, timeout,
                   manifest, doc, docVersion, selection, tasks>>

\* onDidHide: the quick pick is hidden and disposed
Close ==
    /\ open
    /\ open' = FALSE
    /\ UNCHANGED <<envVars, catalogVars, value, showInstalledOnly, filterIsOriginal, timeout,
                   builds, items, busy, manifest, doc, docVersion, selection, tasks,
                   hist>>

\* what a selection or an item button does first: the input and the list are cleared
Cleared ==
    /\ value' = << >>
    /\ items' = << >>
    /\ hist' = [hist EXCEPT !.itemsBy = 0, !.cleared = TRUE]

\* the document and the range the session hands to the executor and the editor
TargetRange == IF variant = "search" THEN selection ELSE range0

\* onDidChangeSelection without its test of pkg.isInstalled
OnSelectAlwaysAdds(row) ==
    IF (variant = "search" /\ ~hasEditor) \/ row.kind = "placeholder"
    THEN << >>
    ELSE <<runFlutterPubAdd(Task("add", "select", row.pkg, TRUE, TargetRange),
                            hasWorkspace)>>

\* onDidChangeSelection, after the clearing: the calls it makes for the row
OnSelect(row) ==
    IF (variant = "search" /\ ~hasEditor) \/ row.kind = "placeholder"
    THEN \* no editor: return; a row without pkg: pkg.isInstalled throws
         << >>
    ELSE IF row.pkg.isInstalled
    THEN <<addImportStatement(Task("import", "select", row.pkg, TRUE, TargetRange),
                              hasEditor, doc, docVersion)>>
    ELSE <<runFlutterPubAdd(Task("add", "select", row.pkg, TRUE, TargetRange),
                            hasWorkspace)>>

\* onDidTriggerItemButton, after the clearing: the trash button of an installed
\* row, the add button of another
OnItemButton(row) ==
    IF row.pkg.isInstalled
    THEN <<runFlutterPubRemove(Task("remove", "button", row.pkg, FALSE, NoRange),
                               hasWorkspace)>>
    ELSE IF variant = "search" /\ ~hasEditor
    THEN << >>
    ELSE <<runFlutterPubAdd(Task("add", "button", row.pkg, TRUE, TargetRange),
                            hasWorkspace)>>

\* onDidChangeSelection: the user accepts row i
Select(i) ==
    /\ open
    /\ i \in DOMAIN items
    /\ Len(tasks) < MaxTasks
    /\ Cleared
    /\ tasks' = tasks \o OnSelect(items[i])
    /\ UNCHANGED <<envVars, catalogVars, open, showInstalledOnly, filterIsOriginal, timeout, builds,
                   busy, manifest, doc, docVersion, selection>>

\* onDidTriggerItemButton: the button of row i is pressed
ItemButton(i) ==
    /\ open
    /\ i \in DOMAIN items
    /\ items[i].kind = "package"
    /\ Len(tasks) < MaxTasks
    /\ Cleared
    /\ tasks' = tasks \o OnItemButton(items[i])
    /\ UNCHANGED <<envVars, catalogVars, open, showInstalledOnly, filterIsOriginal, timeout, builds,
                   busy, manifest, doc, docVersion, selection>>

\* what the exec callback of task t does with the exit code and the stderr
AfterExec(t, code, stderr) ==
    IF t.pc = "get" THEN AfterPubGet(t, code, stderr, hasEditor, doc, docVersion)
    ELSE AfterFirstExec(t, code, stderr)

\* the child process of task i exits
ProcessExit(i, code, stderr) ==
    /\ i \in DOMAIN tasks
    /\ tasks[i].pc \in {"add", "remove", "get"}
    /\ code = 0 => stderr = << >>
    /\ LET t == tasks[i]
       IN  /\ tasks' = [tasks EXCEPT ![i] =
                   [AfterExec(t, code, stderr) EXCEPT
                        !.exits = Append(t.exits, code),
                        !.stderrs = Append(t.stderrs, stderr)]]
           /\ manifest' = IF code = 0 /\ t.pc # "get"
                          THEN ManifestAfter(manifest, t.kind, t.pkg)
                          ELSE manifest
    /\ UNCHANGED <<envVars, catalogVars, sessionVars, doc, docVersion, selection, hist>>

\* editor.edit of task i settles: the edit is applied if the document still has
\* the version the edit was built for
EditSettled(i) ==
    /\ i \in DOMAIN tasks
    /\ tasks[i].pc = "edit"
    /\ LET t       == tasks[i]
           applied == t.version = docVersion
           text    == ApplyImportEdit(doc, t.pkg, t.range, t.insert)
       IN  /\ tasks' = [tasks EXCEPT ![i] = AfterEdit(t, applied)]
           /\ doc' = IF applied THEN text ELSE doc
           /\ docVersion' = IF applied /\ text # doc THEN docVersion + 1 ELSE docVersion
           /\ selection' = IF applied THEN SelectionAfter(doc, t.pkg, t.range, t.insert)
                           ELSE selection
    /\ UNCHANGED <<envVars, catalogVars, sessionVars, manifest, hist>>

Next ==
    \/ \E q \in Queries : TextChange(q)
    \/ Toggle
    \/ \E d \in Delays : Advance(d)
    \/ Fire
    \/ \E b \in builds, ok \in BOOLEAN : Complete(b, ok)
    \/ Close
    \/ \E i \in 1..Len(items) : Select(i)
    \/ \E i \in 1..Len(items) : ItemButton(i)
    \/ \E i \in 1..Len(tasks), code \in {0, 1}, stderr \in Stderrs : ProcessExit(i, code, stderr)
    \/ \E i \in 1..Len(tasks) : EditSettled(i)

Spec == Init /\ [][Next]_vars

-----------------------------------------------------------------------------
(* Properties of the session *)

InProgress(t) == t.pc \in {"add", "remove", "get"}

Failed(t) == \E k \in DOMAIN t.exits : t.exits[k] # 0

\* C1: staleness rejection. Whenever the rendered list was written by a build,
\* no build started after that one has already completed: the result of a
\* superseded build never replaces the result of a newer one.
C1_StalenessRejection ==
    hist.itemsBy = 0 \/ hist.itemsBy >= hist.maxCompleted

C3_NothingAfterClose ==
    ~hist.startedClosed /\ ~hist.wroteClosed

\* C4: the processes of one call run in sequence, each started at most once:
\* at most one is running, flutter pub get is the second and is started only
\* when the first has exited with code zero, and nothing is started after a
\* non-zero exit.
C4_StepsInSequence ==
    \A i \in DOMAIN tasks :
        LET t == tasks[i]
        IN  /\ Len(t.procs) <= 2
            /\ Len(t.exits) <= Len(t.procs)
            /\ Len(t.procs) - Len(t.exits) <= 1
            /\ Len(t.procs) >= 1 =>
                  t.procs[1] = (IF t.kind = "add" THEN "pub add" ELSE "pub remove")
            /\ Len(t.procs) = 2 =>
                  /\ t.procs[2] = "pub get"
                  /\ Len(t.exits) >= 1 /\ t.exits[1] = 0
            /\ \A k \in DOMAIN t.exits : t.exits[k] # 0 => Len(t.procs) = k

\* an add whose two steps have both run and exited with code zero
C4_Witness ==
    \E i \in DOMAIN tasks :
        /\ tasks[i].procs = <<"pub add", "pub get">>
        /\ tasks[i].exits = <<0, 0>>

\* C5: when flutter pub add exits non-zero, the call ends with one error
\* message that holds the stderr text, having started no other process and
\* shown no success message.
C5_AddFailureReported ==
    \A i \in DOMAIN tasks :
        LET t == tasks[i]
        IN  (t.kind = "add" /\ Len(t.exits) >= 1 /\ t.exits[1] # 0) =>
                /\ t.pc = "done"
                /\ t.procs = <<"pub add">>
                /\ Len(t.msgs) = 1
                /\ t.msgs[1].level = "error"
                /\ Includes(t.msgs[1].text, t.stderrs[1])

\* flutter pub add has failed with a stderr text that is not empty
C5_Witness ==
    \E i \in DOMAIN tasks :
        /\ tasks[i].kind = "add"
        /\ tasks[i].exits = <<1>>
        /\ tasks[i].stderrs[1] # << >>

\* C6: an add started by selecting a record that is not installed edits the
\* document only when flutter pub add and flutter pub get have both exited
\* with code zero; when either fails the call ends without an edit.
C6_ImportAfterSuccessfulAdd ==
    \A i \in DOMAIN tasks :
        LET t == tasks[i]
        IN  (t.origin = "select" /\ ~t.rec.isInstalled) =>
                /\ t.kind = "add"
                /\ (t.pc = "edit" \/ t.edited) => t.exits = <<0, 0>>
                /\ Failed(t) => (t.pc = "done" /\ ~t.edited)

\* the resync of a selected, not installed record has failed: the call is over
\* and the document is as it was
C6_Witness ==
    \E i \in DOMAIN tasks :
        /\ tasks[i].origin = "select" /\ ~tasks[i].rec.isInstalled
        /\ tasks[i].exits = <<0, 1>>
        /\ tasks[i].pc = "done"
        /\ doc \in StartDocs

\* C7: selecting a record that is installed calls the import editor and
\* starts no process.
C7_InstalledSelectImportsOnly ==
    \A i \in DOMAIN tasks :
        LET t == tasks[i]
        IN  (t.origin = "select" /\ t.rec.isInstalled) =>
                /\ t.kind = "import"
                /\ t.procs = << >>
                /\ t.exits = << >>

\* an installed record was selected and its import edit has been applied
C7_Witness ==
    \E i \in DOMAIN tasks :
        /\ tasks[i].origin = "select" /\ tasks[i].rec.isInstalled
        /\ tasks[i].pc = "done" /\ tasks[i].edited
        /\ Includes(doc, ImportStatement(tasks[i].pkg))

\* C8: the button of a record that is not installed adds the package and does
\* not edit the document; the button of an installed record removes it.
C8_ButtonAddsWithoutImport ==
    \A i \in DOMAIN tasks :
        LET t == tasks[i]
        IN  t.origin = "button" =>
                /\ t.kind = (IF t.rec.isInstalled THEN "remove" ELSE "add")
                /\ t.pc # "edit"
                /\ ~t.edited

\* C9: no two mutations of the same package are in progress at once.
C9_MutationsSerialized ==
    \A i, j \in DOMAIN tasks :
        (i < j /\ InProgress(tasks[i]) /\ InProgress(tasks[j])) =>
            tasks[i].pkg # tasks[j].pkg

\* C22: when the search of a build of the session fails while a list is shown,
\* the failure is reported and the items of the quick pick after the build are
\* the items before it.
C22_FailedBuildKeepsItems ==
    [][ \A b \in builds :
            ( Complete(b, FALSE) /\ items # << >> ) => items' = items ]_vars

\* C25: every build reads the manifest anew.  The rows a search build writes
\* are installed according to the manifest as it is when the response ends, and
\* the records of an installed-only build are the dependencies of the manifest
\* as it is when the build starts, whatever an earlier build has read.
C25_ManifestReadAnew ==
    [][ /\ \A b \in builds :
              ( Complete(b, TRUE) /\ ~b.installedOnly ) =>
                  \A k \in DOMAIN items' :
                      items'[k].kind = "package" =>
                          ( items'[k].pkg.isInstalled <=>
                                IsDeclared(manifest, items'[k].pkg.name) )
        /\ Fire =>
              \A b \in builds' \ builds :
                  b.installedOnly =>
                      [k \in DOMAIN b.snapshot |-> b.snapshot[k].name] = manifest
      ]_vars

\* the first build has shown a package as not installed, flutter pub add of it
\* has exited with code zero, and the second build shows it as installed
C25_Witness ==
    /\ hist.itemsBy = 2
    /\ \E i \in DOMAIN tasks, k \in DOMAIN items :
          /\ tasks[i].kind = "add" /\ ~tasks[i].rec.isInstalled
          /\ Len(tasks[i].exits) >= 1 /\ tasks[i].exits[1] = 0
          /\ items[k].kind = "package"
          /\ items[k].pkg.name = tasks[i].pkg
          /\ items[k].pkg.isInstalled

\* C26: without a workspace folder a call of runFlutterPubAdd or of
\* runFlutterPubRemove shows "Workspace folder not found" and nothing else, and
\* is over at once: it starts no process, edits no document and shows no
\* message of success.
C26_NoWorkspaceFailsFast ==
    ~hasWorkspace =>
        \A i \in DOMAIN tasks :
            LET t == tasks[i]
            IN  t.kind \in {"add", "remove"} =>
                    /\ t.pc = "done"
                    /\ t.msgs = <<MsgNoWorkspace>>
                    /\ t.procs = << >> /\ t.exits = << >>
                    /\ ~t.edited /\ ~t.insert

\* without a workspace folder, an add and a remove have been asked for
C26_Witness ==
    /\ ~hasWorkspace
    /\ \E i, j \in DOMAIN tasks :
          /\ tasks[i].kind = "add" /\ tasks[i].msgs = <<MsgNoWorkspace>>
          /\ tasks[j].kind = "remove" /\ tasks[j].msgs = <<MsgNoWorkspace>>

\* C27: a mutation shows one progress message while its add or remove
\* sub-command runs and another one while flutter pub get runs, and the message
\* of a failure of flutter pub get is not the message a failure of the first
\* sub-command with the same error output gives.
C27_DistinctPhases ==
    \A i \in DOMAIN tasks :
        LET t == tasks[i]
        IN  /\ ( t.kind \in {"add", "remove"} /\ Len(t.procs) = 2 ) =>
                  /\ Len(t.progress) = 2
                  /\ t.progress[1] # t.progress[2]
            /\ ( t.kind \in {"add", "remove"} /\ Len(t.exits) = 2 /\ t.exits[2] # 0 ) =>
                  /\ t.msgs # << >>
                  /\ t.msgs[Len(t.msgs)] #
                        (IF t.kind = "add" THEN MsgAddFailed(t.stderrs[2])
                         ELSE MsgRemoveFailed(t.stderrs[2]))

\* C31: every press of the filter button flips showInstalledOnly and calls the
\* debounced updateItems with the text of the input box, which the press leaves
\* as it is; after n presses the session shows the installed packages only
\* exactly when n is odd.
C31_TogglePressFlips ==
    [][ hist'.toggles = hist.toggles + 1 =>
            /\ showInstalledOnly' = ~showInstalledOnly
            /\ value' = value
            /\ timeout' = [pending |-> TRUE, args |-> value, left |-> DebounceWait]
            /\ showInstalledOnly' <=> (hist'.toggles % 2 = 1) ]_vars

\* C32: while a build of the session awaits its packages the quick pick is
\* busy, and once every build that was started has completed it is not busy and
\* shows what the last completed build wrote: rows of packages, the row of an
\* empty result or the row of an error.
C32_LoadingWhileBuilding ==
    /\ builds # {} => busy
    /\ ( builds = {} /\ hist.started > 0 ) =>
          /\ ~busy
          /\ hist.itemsBy > 0 => items # << >>

\* C33: quiescent consistency.  Whenever no timer is pending and no build awaits
\* its packages, and no selection has cleared the input box since the last call
\* of updateItems, the rows of the quick pick were written by the build that
\* was started last, and that build was called with the text the input box
\* holds now.
C33_QuiescentConsistency ==
    ( ~timeout.pending /\ builds = {} /\ ~hist.cleared ) =>
        /\ hist.itemsBy = hist.started
        /\ hist.lastArgs = value

\* C34: once a selection or an item button has cleared the input box and the
\* list, and until the next call of updateItems by a text change or a press of
\* the filter button, a build that was awaiting its packages when the list was
\* cleared leaves the list empty when it completes.
C34_ClearedStaysEmpty ==
    [][ \A b \in builds, ok \in BOOLEAN :
            ( hist.cleared /\ Complete(b, ok) ) => items' = << >> ]_vars

-----------------------------------------------------------------------------
(* The import editor alone: addImportStatement called again and again on one
   document, over every document built from a few pieces of text *)

\* pieces a document is built from
MaxPieces == 4

\* calls of addImportStatement on the document
MaxEditorCalls == 3

\* edits made by the user while an edit of addImportStatement is pending
MaxUserEdits == 1

EditedPkg == [name |-> "http", isInstalled |-> TRUE, isImported |-> FALSE]

Pieces ==
    { ImportStatement(EditedPkg.name),
      <<"import '">>,
      ImportReference(EditedPkg.name),
      <<"';", "\n">>,
      <<"word">> }

\* the offset in the text at which piece k + 1 begins
RECURSIVE Offset(_, _)
Offset(ps, k) == IF k = 0 THEN 0 ELSE Offset(ps, k - 1) + Len(ps[k])

PieceSeqs == UNION {[1..n -> Pieces] : n \in 0..MaxPieces}

ImportLines(text) == Occurrences(text, ImportStatement(EditedPkg.name))

InitEditor ==
    /\ \E ps \in PieceSeqs :
          /\ doc = Flatten(ps)
          /\ \E a \in 0..Len(ps) : \E b \in a..Len(ps) :
                range0 = [from |-> Offset(ps, a), to |-> Offset(ps, b)]
    /\ selection = range0
    /\ docVersion = 0
    /\ tasks = << >>
    /\ hist = [doc0 |-> doc, userEdits |-> 0, before |-> << >>]
    /\ variant = "suggest"
    /\ query0 = <<"h">>
    /\ hasEditor = TRUE
    /\ hasWorkspace = TRUE
    /\ manifest = <<EditedPkg.name>>
    /\ open = FALSE
    /\ value = << >>
    /\ showInstalledOnly = FALSE
    /\ filterIsOriginal = TRUE
    /\ timeout = NoTimer
    /\ builds = {}
    /\ items = << >>
    /\ busy = FALSE
    /\ CatalogIdle
    /\ HostIdle

\* addImportStatement is called once the call before it has returned: the first
\* call with the range, the later ones with an empty range; hist.before keeps
\* the text each call has found
CallEditor ==
    /\ Len(tasks) < MaxEditorCalls
    /\ \A i \in DOMAIN tasks : tasks[i].pc = "done"
    /\ LET r == IF tasks = << >> THEN range0 ELSE [from |-> 0, to |-> 0]
       IN  tasks' = Append(tasks,
               addImportStatement(Task("import", "select", EditedPkg, TRUE, r),
                                  hasEditor, doc, docVersion))
    /\ hist' = [hist EXCEPT !.before = Append(@, doc)]
    /\ UNCHANGED <<envVars, catalogVars, sessionVars, manifest, doc, docVersion, selection>>

\* the user types at the end of the document while an edit is pending
UserTypes ==
    /\ hist.userEdits < MaxUserEdits
    /\ \E i \in DOMAIN tasks : tasks[i].pc = "edit"
    /\ doc' = Append(doc, "word")
    /\ docVersion' = docVersion + 1
    /\ hist' = [hist EXCEPT !.userEdits = @ + 1]
    /\ UNCHANGED <<envVars, catalogVars, sessionVars, manifest, selection, tasks>>

NextEditor ==
    \/ CallEditor
    \/ \E i \in 1..Len(tasks) : EditSettled(i)
    \/ UserTypes

SpecEditor == InitEditor /\ [][NextEditor]_vars

AllApplied == \A i \in DOMAIN tasks : tasks[i].pc = "done" /\ tasks[i].edited

\* C10, as claimed: on a document that holds at most one import line, after the
\* call with the range and a second call with an empty range the document holds
\* exactly one import line, and after any number of calls it never holds two.
C10_Idempotent ==
    ( /\ ImportLines(hist.doc0) <= 1
      /\ tasks # << >>
      /\ \A i \in DOMAIN tasks : tasks[i].pc = "done" ) =>
        /\ ImportLines(doc) <= 1
        /\ Len(tasks) >= 2 => ImportLines(doc) = 1

\* C10, amended: on a document that holds at most one import line, with a range
\* whose deletion creates none, the document never holds two import lines, whether
\* the edits are applied or not; once two calls have had their edits applied it
\* holds exactly one.
C10_IdempotentAmended ==
    ( /\ ImportLines(hist.doc0) <= 1
      /\ ImportLines(DeleteRange(hist.doc0, range0)) <= ImportLines(hist.doc0) ) =>
        /\ ImportLines(doc) <= 1
        /\ (Len(tasks) >= 2 /\ AllApplied) => ImportLines(doc) = 1

\* the first call has deleted its range and inserted the line, the second has
\* found the line and inserted nothing
C10_Witness ==
    /\ Len(tasks) = 2 /\ AllApplied
    /\ tasks[1].insert /\ ~tasks[2].insert
    /\ tasks[1].range.from < tasks[1].range.to
    /\ ImportLines(hist.doc0) = 0
    /\ ImportLines(doc) = 1

\* the text is `before` followed by what the user has typed since
UserTyped(before, text) ==
    /\ Len(text) >= Len(before)
    /\ SubSeq(text, 1, Len(before)) = before
    /\ \A k \in (Len(before) + 1)..Len(text) : text[k] = "word"

Reported(t, msg) == \E k \in DOMAIN t.msgs : t.msgs[k] = msg

\* the latest call of addImportStatement and the text it has found
LastCall == tasks[Len(tasks)]
LastBefore == hist.before[Len(tasks)]

C12_ImportedAtStart ==
    ( /\ tasks # << >>
      /\ ~Includes(LastBefore, ImportStatement(LastCall.pkg))
      /\ LastCall.pc = "done" ) =>
        /\ doc = ImportStatement(LastCall.pkg) \o DeleteRange(LastBefore, LastCall.range)
        /\ Reported(LastCall, MsgImported(LastCall.pkg))

\* C13: the deletion and the insertion are one edit: while a call that has to
\* insert is pending, and after the editor has rejected its edit, the text is
\* the one the call found (and what the user typed); once the edit is applied
\* the text has the range deleted and the import line inserted.
C13_AtomicEdit ==
    ( tasks # << >> /\ LastCall.insert ) =>
        \/ /\ ~(LastCall.pc = "done" /\ LastCall.edited)
           /\ UserTyped(LastBefore, doc)
        \/ /\ LastCall.pc = "done" /\ LastCall.edited
           /\ doc = ImportStatement(LastCall.pkg)
                        \o DeleteRange(LastBefore, LastCall.range)

\* the editor has rejected an edit that deletes a word and inserts the line
C13_Witness ==
    /\ tasks # << >>
    /\ LastCall.insert /\ LastCall.pc = "done" /\ ~LastCall.edited
    /\ LastCall.range.from < LastCall.range.to
    /\ doc = Append(LastBefore, "word")

\* C38: the record of a package is imported (the text of the document includes
\* `package:p/p.dart`) exactly when addImportStatement, called on that text,
\* finds the package imported and inserts nothing; so no import is inserted for
\* a package whose record says it is imported.
C38_ImportPredicatesAgree ==
    \A i \in DOMAIN tasks :
        PkgInfo(tasks[i].pkg, TRUE, hist.before[i]).isImported <=> ~tasks[i].insert

-----------------------------------------------------------------------------
(* One catalog build on its own: the manifest, the document and the registry
   are drawn from small sets, then updateItems builds its packages once,
   either with getInstalledPackages and the filter or with
   fetchMatchingPackages *)

CatalogDocs == { <<"word", "\n">>, ImportStatement("json_ext") \o <<"word", "\n">> }

CatalogQueries == { << >>, <<"h">> }

Revisions == {"extension.ts", "part_000"}

\* the detail fetch number i has been awaited and has resolved: its record is
\* pushed, then the loop goes on with the next entry or the function returns
PushAndGoOn(b, ds) ==
    LET rec  == InstalledRecord(b.source[b.next], ds[Len(ds)].value, b.fileContent)
        pkgs == Append(b.packages, rec)
    IN  IF b.next < Len(b.source)
        THEN [build   |-> [b EXCEPT !.packages = pkgs, !.next = @ + 1],
              details |-> Append(ds, DetailFetch(b.source[b.next + 1].name))]
        ELSE [build   |-> [b EXCEPT !.packages = pkgs, !.pc = "done",
                                    !.result = FilterInstalled(pkgs, b.query)],
              details |-> ds]

\* a loop of getInstalledPackages starts on its entries
StartLoop(b, ds, entries, inCatch) ==
    IF entries = << >>
    THEN [build   |-> [b EXCEPT !.pc = "done", !.inCatch = inCatch,
                                !.result = FilterInstalled(b.packages, b.query)],
          details |-> ds]
    ELSE [build   |-> [b EXCEPT !.pc = "installed", !.inCatch = inCatch,
                                !.source = entries, !.next = 1],
          details |-> Append(ds, DetailFetch(entries[1].name))]

\* getInstalledPackages without its catch block: what yaml.load throws reaches
\* the caller
getInstalledPackagesStartThrows(b, file, text) ==
    LET b1 == [b EXCEPT !.fileContent = text, !.file = file]
    IN  IF ~file.exists THEN [build |-> [b1 EXCEPT !.pc = "done"], details |-> << >>]
        ELSE IF YamlLoads(file.lines)
        THEN StartLoop(b1, << >>, StructuredEntries(file.lines), FALSE)
        ELSE [build |-> [b1 EXCEPT !.pc = "failed"], details |-> << >>]

\* getInstalledPackages up to its first await
getInstalledPackagesStart(b, file, text) ==
    LET b1 == [b EXCEPT !.fileContent = text, !.file = file]
    IN  IF ~file.exists THEN [build |-> [b1 EXCEPT !.pc = "done"], details |-> << >>]
        ELSE IF YamlLoads(file.lines)
        THEN StartLoop(b1, << >>, StructuredEntries(file.lines), FALSE)
        ELSE StartLoop(b1, << >>, FallbackEntries(file.lines), TRUE)

\* the build goes on after detail fetch i has changed
Resume(b, ds, i, rev) ==
    IF ds[i].promise = "pending" THEN [build |-> b, details |-> ds]
    ELSE IF b.pc = "installed"
    THEN IF ds[i].promise = "resolved" THEN PushAndGoOn(b, ds)
         ELSE IF ~b.inCatch THEN StartLoop(b, ds, FallbackEntries(b.file.lines), TRUE)
         ELSE [build |-> [b EXCEPT !.pc = "failed"], details |-> ds]
    ELSE IF b.pc = "enrich"
    THEN IF \E k \in DOMAIN ds : ds[k].promise = "rejected"
         THEN [build |-> [b EXCEPT !.pc = "failed"], details |-> ds]
         ELSE IF \A k \in DOMAIN ds : ds[k].promise = "resolved"
         THEN [build |-> [b EXCEPT !.pc = "done",
                   !.result = [k \in 1..Len(b.hits) |->
                       SearchRecord(b.hits[k], ds[k].value.description,
                                    ds[k].value.latestVersion,
                                    b.installedNames, b.fileContent)]],
               details |-> ds]
         ELSE [build |-> b, details |-> ds]
    ELSE [build |-> b, details |-> ds]

InitCatalog ==
    /\ revision \in Revisions
    /\ pubspec \in Pubspecs
    /\ registry \in Registries
    /\ doc \in CatalogDocs
    /\ Len(registry.hits) > MaxHits =>
          /\ pubspec \in {NoFile, File(<<Line(0, "name", "app")>>)}
          /\ doc = <<"word", "\n">>
    /\ build = Build0
    /\ details = << >>
    /\ docVersion = 0
    /\ selection = NoRange
    /\ range0 = NoRange
    /\ tasks = << >>
    /\ hist = << >>
    /\ variant = "search"
    /\ query0 = << >>
    /\ hasEditor = TRUE
    /\ hasWorkspace = TRUE
    /\ manifest = << >>
    /\ open = TRUE
    /\ value = << >>
    /\ showInstalledOnly = FALSE
    /\ filterIsOriginal = TRUE
    /\ timeout = NoTimer
    /\ builds = {}
    /\ items = << >>
    /\ busy = FALSE
    /\ HostIdle

notCatalogVars ==
    <<envVars, sessionVars, manifest, doc, docVersion, selection, tasks, hist>>

\* updateItems in the installed-only mode calls getInstalledPackages
StartInstalled(q) ==
    /\ build.pc = "idle"
    /\ LET r == getInstalledPackagesStart(
                    [build EXCEPT !.mode = "installed-only", !.query = q], pubspec, doc)
       IN  build' = r.build /\ details' = r.details
    /\ UNCHANGED <<revision, pubspec, registry, notCatalogVars>>

\* updateItems in the other mode calls fetchMatchingPackages, which sends the
\* search request; part_000 reads the manifest and the document before it does
StartSearch(q) ==
    /\ build.pc = "idle"
    /\ build' = [build EXCEPT
            !.pc = "search", !.mode = "all", !.query = q, !.requests = @ + 1,
            !.fileContent = IF revision = "part_000" THEN doc ELSE @,
            !.installedNames = IF revision = "part_000"
                               THEN InstalledNamesRefactored(pubspec) ELSE @]
    /\ UNCHANGED <<revision, pubspec, registry, details, notCatalogVars>>

\* the search resolves with an empty list where it rejects
SearchFailureResolvesEmpty(b, kind) ==
    [b EXCEPT !.pc = "done", !.response = kind, !.result = << >>]

\* reject(...) of fetchMatchingPackages: on a status other than 200, on a body
\* JSON.parse throws on, on the 'error' event of the request
SearchFailure(b, kind) ==
    [b EXCEPT !.pc = "failed", !.response = kind]

\* the search request fails, or its response ends: "error", a status other than
\* 200, a body that is no JSON, a JSON without packages, or the packages
SearchResponds(kind) ==
    /\ build.pc = "search"
    /\ IF kind \in {"error", "status", "invalid"}
       THEN /\ build' = SearchFailure(build, kind)
            /\ UNCHANGED details
       ELSE LET hits == IF kind = "packages" THEN SliceHits(registry.hits) ELSE << >>
                b    == [build EXCEPT !.response = kind, !.hits = hits]
            IN  IF revision = "extension.ts"
                THEN /\ build' = [b EXCEPT
                            !.pc = "done",
                            !.fileContent = doc,
                            !.installedNames = InstalledNamesExtension(pubspec),
                            !.result = [k \in 1..Len(hits) |->
                                SearchRecord(hits[k], hits[k].description,
                                             hits[k].latestVersion,
                                             InstalledNamesExtension(pubspec), doc)]]
                     /\ UNCHANGED details
                ELSE IF hits = << >>
                THEN /\ build' = [b EXCEPT !.pc = "done"]
                     /\ UNCHANGED details
                ELSE /\ build' = [b EXCEPT !.pc = "enrich"]
                     /\ details' = [k \in 1..Len(hits) |-> DetailFetch(hits[k].package)]
    /\ UNCHANGED <<revision, pubspec, registry, notCatalogVars>>

\* the detail request i fails or its response arrives
DetailResponds(i) ==
    /\ i \in DOMAIN details
    /\ details[i].net = "sent"
    /\ LET ds == [details EXCEPT ![i] =
                    OnDetailResponse(@, DetailOutcome(registry, details[i].name))]
           r  == Resume(build, ds, i, revision)
       IN  build' = r.build /\ details' = r.details
    /\ UNCHANGED <<revision, pubspec, registry, notCatalogVars>>

\* the body of the detail response i ends, or the connection is closed before
DetailEnds(i) ==
    /\ i \in DOMAIN details
    /\ details[i].net = "receiving"
    /\ LET ds == [details EXCEPT ![i] =
                    OnDetailEnd(@, DetailOutcome(registry, details[i].name))]
           r  == Resume(build, ds, i, revision)
       IN  build' = r.build /\ details' = r.details
    /\ UNCHANGED <<revision, pubspec, registry, notCatalogVars>>

NextCatalog ==
    \/ \E q \in CatalogQueries : StartInstalled(q)
    \/ \E q \in CatalogQueries : StartSearch(q)
    \/ \E kind \in {"error", "status", "invalid", "no packages", "packages"} :
            SearchResponds(kind)
    \/ \E i \in 1..Len(details) : DetailResponds(i)
    \/ \E i \in 1..Len(details) : DetailEnds(i)

SpecCatalog == InitCatalog /\ [][NextCatalog]_vars

-----------------------------------------------------------------------------
(* Properties of the catalog builds *)

\* the top-level key a line belongs to: the nearest line above it that is not
\* indented, 0 when there is none
Owner(lines, k) ==
    IF \E j \in 1..(k - 1) : lines[j].indent = 0
    THEN CHOOSE j \in 1..(k - 1) :
            /\ lines[j].indent = 0
            /\ \A m \in (j + 1)..(k - 1) : lines[m].indent # 0
    ELSE 0

\* the manifest as a reader of pubspec.yaml understands it: the entries nested
\* in the dependencies section, each with its constraint string when it has one
DeclaredDependencies(lines) ==
    LET idx == SelectSeq([k \in 1..Len(lines) |-> k], LAMBDA k :
                   /\ lines[k].indent = 1 /\ lines[k].key # ""
                   /\ Owner(lines, k) # 0
                   /\ lines[Owner(lines, k)].key = "dependencies")
    IN  [n \in 1..Len(idx) |->
            [name       |-> lines[idx[n]].key,
             constraint |-> IF lines[idx[n]].rest = "" THEN Absent
                            ELSE lines[idx[n]].rest]]

\* the mapping of the manifest: none without a file, the declared dependencies
\* when the file is well-formed, else one entry for each `key: rest` line
ManifestState(file) ==
    IF ~file.exists THEN << >>
    ELSE IF YamlLoads(file.lines) THEN DeclaredDependencies(file.lines)
    ELSE LET ms == SelectSeq(file.lines, LAMBDA l : l.key # "")
         IN  [n \in 1..Len(ms) |-> [name |-> ms[n].key, constraint |-> ms[n].rest]]

IsKey(file, name) ==
    \E n \in DOMAIN ManifestState(file) :
        Lower(ManifestState(file)[n].name) = Lower(name)

Delivered(mode) == build.pc = "done" /\ build.mode = mode

\* C14: a record of a build in the mode `all` is installed iff its name, in
\* lower case, is a key of the manifest's mapping, whichever way the manifest
\* was parsed; without a manifest file no record is installed and each carries
\* the description the registry gave.
C14_InstalledIffDeclared ==
    Delivered("all") =>
        \A k \in DOMAIN build.result :
            /\ build.result[k].isInstalled <=> IsKey(pubspec, build.result[k].name)
            /\ ~pubspec.exists =>
                  /\ ~build.result[k].isInstalled
                  /\ build.hits[k].description \notin {Absent, ""} =>
                        build.result[k].description = build.hits[k].description

\* C15: an installed-only build with an empty query returns one record for each
\* dependency of the manifest, installed, with the constraint string of the
\* manifest as its version, and not imported when the document has no import
\* of it.
C15_InstalledOnlyEmptyQuery ==
    ( Delivered("installed-only") /\ build.query = << >> ) =>
        LET deps == ManifestState(pubspec)
        IN  /\ Len(build.result) = Len(deps)
            /\ \A k \in DOMAIN build.result :
                  /\ build.result[k].name = deps[k].name
                  /\ build.result[k].isInstalled
                  /\ build.result[k].version = deps[k].constraint
                  /\ ~Includes(doc, ImportReference(deps[k].name)) =>
                        ~build.result[k].isImported

\* the manifest declares json_ext: ^1.0.0 and nothing else, the document does
\* not import it: one record, json_ext, "^1.0.0", installed, not imported
C15_Witness ==
    /\ Delivered("installed-only") /\ build.query = << >>
    /\ DeclaredDependencies(pubspec.lines) =
            <<[name |-> "json_ext", constraint |-> "^1.0.0"]>>
    /\ ~Includes(doc, ImportReference("json_ext"))
    /\ Len(build.result) = 1
    /\ build.result[1].name = "json_ext"
    /\ build.result[1].version = "^1.0.0"
    /\ build.result[1].isInstalled /\ ~build.result[1].isImported

\* the records a build has made so far, delivered or not
AllRecords ==
    {build.packages[k] : k \in DOMAIN build.packages}
        \cup {build.result[k] : k \in DOMAIN build.result}

\* C16: a record has a declared version only if it is installed, in both modes
\* and on both ways of parsing the manifest.
C16_VersionOnlyIfInstalled ==
    \A r \in AllRecords : r.version # Absent => r.isInstalled

\* a manifest that yaml.load rejects has given a record with a version and a
\* record for a line with nothing after the colon
C16_Witness ==
    /\ Delivered("installed-only") /\ build.inCatch
    /\ \E r \in AllRecords : r.version = "^1.0.0" /\ r.isInstalled
    /\ \E r \in AllRecords : r.version = "" /\ r.isInstalled

RECURSIVE IsSubsequence(_, _)
\* a is b with some of its members left out
IsSubsequence(a, b) ==
    IF a = << >> THEN TRUE
    ELSE IF b = << >> THEN FALSE
    ELSE IF Head(a) = Head(b) THEN IsSubsequence(Tail(a), Tail(b))
    ELSE IsSubsequence(a, Tail(b))

RecordNames(records) == [k \in DOMAIN records |-> records[k].name]

\* C17: a search sends one request and returns at most 10 records, the first
\* packages of the response in the order of the response; an installed-only
\* build returns its records in the order of the manifest.
C17_SourceOrder ==
    /\ build.mode = "all" /\ build.pc # "idle" => build.requests = 1
    /\ Delivered("all") =>
          /\ Len(build.result) <= MaxHits
          /\ build.response = "packages" =>
                /\ Len(build.result) <= Len(registry.hits)
                /\ Len(build.result) = MaxHits \/ Len(build.result) = Len(registry.hits)
                /\ \A k \in DOMAIN build.result :
                      build.result[k].name = registry.hits[k].package
    /\ Delivered("installed-only") =>
          /\ build.requests = 0
          /\ IsSubsequence(RecordNames(build.result),
                           [k \in DOMAIN ManifestState(pubspec) |->
                               ManifestState(pubspec)[k].name])

\* the registry has answered eleven packages and the search of part_000, its
\* ten detail fetches settled, has returned the first ten
C17_Witness ==
    /\ Delivered("all") /\ Len(registry.hits) > MaxHits
    /\ Len(details) = MaxHits
    /\ Len(build.result) = MaxHits
    /\ build.result[MaxHits].name = registry.hits[MaxHits].package

FailureOutcomes == {"error", "status", "invalid", "aborted"}

\* C18: fetchPackageDetails settles whenever its request is over and never
\* rejects: after a network error, a status other than 200 or a body that is no
\* JSON it has resolved to the empty object; no build is failed by a detail fetch.
C18_DetailFetchSettles ==
    /\ \A i \in DOMAIN details :
          /\ details[i].promise # "rejected"
          /\ details[i].net = "closed" =>
                /\ details[i].promise = "resolved"
                /\ DetailOutcome(registry, details[i].name) \in FailureOutcomes =>
                      details[i].value = NoDetails
    /\ build.pc = "failed" => build.response \in {"error", "status", "invalid"}

\* C19: a search makes one detail fetch for each of its hits, all of them at
\* once, and delivers its result only when every one of them has settled.
C19_ConcurrentDetailFetches ==
    /\ ( build.mode = "all" /\ build.pc \in {"enrich", "done"} ) =>
          /\ Len(details) = Len(build.hits)
          /\ \A k \in DOMAIN details : details[k].name = build.hits[k].package
    /\ Delivered("all") =>
          \A k \in DOMAIN details : details[k].promise # "pending"

\* the detail fetch of hit k has failed and resolved to the empty object
DetailFailed(k) ==
    /\ k \in DOMAIN details
    /\ details[k].promise = "resolved"
    /\ DetailOutcome(registry, details[k].name) \in FailureOutcomes

SearchFailures == {"error", "status", "invalid"}

C24_ParserEquivalence ==
    ( Delivered("installed-only") /\ build.inCatch ) =>
        LET wellFormed == SelectSeq(pubspec.lines, LAMBDA l : l # BrokenLine)
        IN  Names(build.packages) = Names(StructuredEntries(wellFormed))

-----------------------------------------------------------------------------
(* The listener of the saves: activate registers it once, it runs flutter pub
   get in the terminal 1000 ms after the last save of a pubspec.yaml *)

\* saves of one run of the model
MaxSaves == 3

PubGetWait == 1000

SaveDelays == {250, 500, 1000}

\* document.fileName: the folder of the workspace, then the rest of the path
ManifestFile == <<"/ws/", "pubspec.yaml">>

FileNames ==
    { ManifestFile, <<"/ws/", "lib/main.dart">>, <<"/ws/", "example/", "pubspec.yaml">> }

\* String.prototype.endsWith
EndsWith(s, suffix) ==
    /\ Len(s) >= Len(suffix)
    /\ SubSeq(s, Len(s) - Len(suffix) + 1, Len(s)) = suffix

\* the state of the model outside the listener and the providers: no command
\* has been run
SessionIdle ==
    /\ variant = "search" /\ query0 = << >> /\ range0 = NoRange
    /\ hasEditor = TRUE /\ hasWorkspace = TRUE
    /\ open = FALSE /\ value = << >>
    /\ showInstalledOnly = FALSE /\ filterIsOriginal = TRUE
    /\ timeout = NoTimer /\ builds = {} /\ items = << >> /\ busy = FALSE
    /\ manifest = << >> /\ docVersion = 0 /\ selection = NoRange
    /\ tasks = << >>

\* the listener of onDidSaveTextDocument: pubGetTimeout after the save
OnSave(timer, fileName, isEnabled) ==
    IF EndsWith(fileName, <<"pubspec.yaml">>) /\ isEnabled
    THEN [pending |-> TRUE, left |-> PubGetWait]
    ELSE timer

PubGetDue == pubGetTimeout.pending /\ pubGetTimeout.left = 0

InitSave ==
    /\ SessionIdle
    /\ CatalogIdle
    /\ HostIdle
    /\ doc = << >>
    /\ hist = [saves |-> 0, bursts |-> 0, sinceSave |-> 0, fireOK |-> TRUE]

notHostVars ==
    <<variant, query0, range0, hasEditor, hasWorkspace, sessionVars, catalogVars,
      manifest, doc, docVersion, selection, tasks, activeTextEditor, otherEditor>>

\* a document is saved; autoPubGetOnSave is read at that moment.  hist counts
\* the saves of the manifest made with the option on: a burst starts with one
\* made when none is waiting for its resync
SaveDocument(fileName, isEnabled) ==
    /\ ~PubGetDue
    /\ hist.saves < MaxSaves
    /\ pubGetTimeout' = OnSave(pubGetTimeout, fileName, isEnabled)
    /\ hist' = IF fileName = ManifestFile /\ isEnabled
               THEN [hist EXCEPT !.saves = @ + 1,
                                 !.bursts = IF pubGetTimeout.pending THEN @ ELSE @ + 1,
                                 !.sinceSave = 0]
               ELSE [hist EXCEPT !.saves = @ + 1]
    /\ UNCHANGED <<notHostVars, terminal, calls>>

\* time passes; a timer that is due runs before more time passes
AdvanceSave(d) ==
    /\ pubGetTimeout.pending /\ d <= pubGetTimeout.left
    /\ pubGetTimeout' = [pubGetTimeout EXCEPT !.left = @ - d]
    /\ hist' = [hist EXCEPT !.sinceSave =
                    IF @ + d > PubGetWait THEN PubGetWait ELSE @ + d]
    /\ UNCHANGED <<notHostVars, terminal, calls>>

\* the timer fires: runFlutterPubGet(false) sends the command to the terminal
PubGetFires ==
    /\ PubGetDue
    /\ pubGetTimeout' = [pending |-> FALSE, left |-> 0]
    /\ terminal' = Append(terminal, "flutter pub get")
    /\ hist' = [hist EXCEPT !.fireOK = @ /\ hist.sinceSave >= PubGetWait]
    /\ UNCHANGED <<notHostVars, calls>>

NextSave ==
    \/ \E f \in FileNames, e \in BOOLEAN : SaveDocument(f, e)
    \/ \E d \in SaveDelays : AdvanceSave(d)
    \/ PubGetFires

SpecSave == InitSave /\ [][NextSave]_vars

\* C29: the saves of the manifest made with the option on, each less than
\* 1000 ms after the one before, give one flutter pub get, 1000 ms after the
\* last of them; no other save gives one.
C29_DebouncedResync ==
    /\ hist.fireOK
    /\ Len(terminal) = hist.bursts - (IF pubGetTimeout.pending THEN 1 ELSE 0)

-----------------------------------------------------------------------------
(* The providers and the suggestion command: each call searches the registry
   for the word it was called on (src/src/extension.ts) *)

\* calls of one run of the model
MaxProviderCalls == 2

\* the selected text, the word under the cursor, the name before the dot
ProviderWords == {"http", "test"}

ProviderPubspecs ==
    { NoFile,
      File(<<Line(0, "name", "app")>>),
      File(<<Line(0, "name", "app"), Line(0, "dependencies", ""),
             Line(1, "http", "^1.0.0")>>) }

\* content.includes(`${selectedText}:`), for the words of the model: a line
\* whose key is the word
ContentIncludes(file, word) ==
    \E k \in DOMAIN file.lines : file.lines[k].key = word

MsgSearchFailed == Msg("error", <<"Failed to search for packages: ", "Error">>)

MsgAllImported ==
    Msg("info", <<"All matching packages are already installed and imported">>)

CodeAction(title, command, pkg) == [title |-> title, command |-> command, pkg |-> pkg]

\* what fetchMatchingPackages resolves to when the registry has answered
SearchResult(file, text) ==
    LET hits == SliceHits(registry.hits)
    IN  [k \in 1..Len(hits) |->
            SearchRecord(hits[k], hits[k].description, hits[k].latestVersion,
                         InstalledNamesExtension(file), text)]

\* a call up to its await of fetchMatchingPackages
ProviderCall(kind, word, actions) ==
    [kind |-> kind, word |-> word, pc |-> "search", response |-> "none",
     actions |-> actions, result |-> "none", msgs |-> << >>,
     enabled |-> TRUE, searches |-> 1]

\* the actions provideCodeActions makes from pubspec.yaml and the document alone
LocalActions(word, file) ==
    IF ContentIncludes(file, word)
    THEN << CodeAction("Import", "addPubPackage", word),
            CodeAction("Remove", "removePubPackage", word) >>
    ELSE << >>

\* provideCodeActions without its test of the option enableSuggestions
provideCodeActionsIgnoringOption(word, file, text, enableSuggestions) ==
    LET isInstalled == ContentIncludes(file, word)
        isImported  == Includes(text, ImportReference(word))
        c           == [ProviderCall("codeAction", word, LocalActions(word, file))
                            EXCEPT !.enabled = enableSuggestions]
        returned    == [c EXCEPT !.pc = "done", !.searches = 0]
    IN  IF ~file.exists THEN [returned EXCEPT !.result = "undefined"]
        ELSE IF isInstalled /\ isImported THEN [returned EXCEPT !.result = "actions"]
        ELSE c

\* provideCodeActions up to its await of fetchMatchingPackages; enabled is the
\* option as the call has read it, or would have
provideCodeActions(word, file, text, enableSuggestions) ==
    LET isInstalled == ContentIncludes(file, word)
        isImported  == Includes(text, ImportReference(word))
        c           == [ProviderCall("codeAction", word, LocalActions(word, file))
                            EXCEPT !.enabled = enableSuggestions]
        returned    == [c EXCEPT !.pc = "done", !.searches = 0]
    IN  IF ~file.exists THEN [returned EXCEPT !.result = "undefined"]
        ELSE IF isInstalled /\ isImported THEN [returned EXCEPT !.result = "actions"]
        ELSE IF ~enableSuggestions THEN [returned EXCEPT !.result = "actions"]
        ELSE c

\* the call goes on with what fetchMatchingPackages has resolved to
AfterSearch(c, packages) ==
    LET available == SelectSeq(packages, LAMBDA p : ~(p.isInstalled /\ p.isImported))
        found     == \E k \in DOMAIN packages :
                        packages[k].name = c.word /\ packages[k].isInstalled
    IN  CASE c.kind = "codeAction" ->
                [c EXCEPT !.pc = "done", !.result = "actions",
                          !.actions = @ \o [k \in 1..Len(available) |->
                              CodeAction(IF available[k].isInstalled THEN "Import"
                                         ELSE "Add & import",
                                         "addPubPackage", available[k].name)]]
          [] c.kind = "hover" ->
                [c EXCEPT !.pc = "done",
                          !.result = IF found THEN "hover" ELSE "undefined"]
          [] c.kind = "completion" ->
                [c EXCEPT !.pc = "done",
                          !.result = IF found THEN "items" ELSE "no items"]
          [] c.kind = "command" ->
                IF available = << >>
                THEN [c EXCEPT !.pc = "done", !.msgs = <<MsgAllImported>>]
                ELSE [c EXCEPT !.pc = "done", !.result = "quick pick"]

\* fetchMatchingPackages has rejected: the command catches and reports, the
\* providers have no catch and their promise is rejected
AfterSearchFailure(c) ==
    IF c.kind = "command"
    THEN [c EXCEPT !.pc = "done", !.msgs = <<MsgSearchFailed>>]
    ELSE [c EXCEPT !.pc = "rejected"]

InitProviders ==
    /\ SessionIdle
    /\ HostIdle
    /\ revision = "extension.ts"
    /\ pubspec \in ProviderPubspecs
    /\ registry \in {[hits |-> hs, detail |-> "up"] : hs \in {<< >>, FewHits}}
    /\ build = Build0
    /\ details = << >>
    /\ doc \in StartDocs
    /\ hist = << >>

\* VS Code asks for the code actions of a selection
ProvideCodeActions(word, enableSuggestions) ==
    /\ Len(calls) < MaxProviderCalls
    /\ calls' = Append(calls, provideCodeActions(word, pubspec, doc, enableSuggestions))
    /\ UNCHANGED <<notHostVars, hist, pubGetTimeout, terminal>>

\* VS Code asks for the hover of a word, for the completions after a dot, or
\* the command flutterAutoImport.showPackageSuggestions is run on a selection
ProvideOther(kind, word) ==
    /\ Len(calls) < MaxProviderCalls
    /\ calls' = Append(calls, ProviderCall(kind, word, << >>))
    /\ UNCHANGED <<notHostVars, hist, pubGetTimeout, terminal>>

\* the search of call i settles
SearchSettles(i, kind) ==
    /\ i \in DOMAIN calls
    /\ calls[i].pc = "search"
    /\ calls' = [calls EXCEPT ![i] =
            IF kind \in {"error", "status", "invalid"}
            THEN AfterSearchFailure([@ EXCEPT !.response = kind])
            ELSE AfterSearch([@ EXCEPT !.response = kind], SearchResult(pubspec, doc))]
    /\ UNCHANGED <<notHostVars, hist, pubGetTimeout, terminal>>

NextProviders ==
    \/ \E w \in ProviderWords, e \in BOOLEAN : ProvideCodeActions(w, e)
    \/ \E k \in {"hover", "completion", "command"}, w \in ProviderWords :
            ProvideOther(k, w)
    \/ \E i \in 1..Len(calls), kind \in {"error", "status", "invalid", "packages"} :
            SearchSettles(i, kind)

SpecProviders == InitProviders /\ [][NextProviders]_vars

\* C28: every search that has failed has given one notification, on whichever
\* path it was made.
C28_EveryFailureNotified ==
    \A i \in DOMAIN calls :
        calls[i].response \in SearchFailures => Len(calls[i].msgs) = 1

\* C30: for a selected name that is declared in pubspec.yaml and imported in
\* the document, provideCodeActions returns no action.
C30_NoActionWhenImported ==
    \A i \in DOMAIN calls :
        ( /\ calls[i].kind = "codeAction" /\ calls[i].pc = "done"
          /\ pubspec.exists
          /\ \E k \in DOMAIN DeclaredDependencies(pubspec.lines) :
                DeclaredDependencies(pubspec.lines)[k].name = calls[i].word
          /\ Includes(doc, ImportReference(calls[i].word)) ) =>
            calls[i].actions = << >>

\* the word of call c is installed and imported, as provideCodeActions sees it
InstalledAndImported(c) ==
    ContentIncludes(pubspec, c.word) /\ Includes(doc, ImportReference(c.word))

\* C40, as claimed: with the option off provideCodeActions sends no request to
\* the registry and returns the actions made from pubspec.yaml and the document
\* alone; with the option on and a name that is not both installed and
\* imported it sends exactly one search.
C40_OptionGatesSearch ==
    \A i \in DOMAIN calls :
        LET c == calls[i]
        IN  c.kind = "codeAction" =>
                /\ ~c.enabled =>
                      /\ c.searches = 0 /\ c.pc = "done"
                      /\ c.actions = LocalActions(c.word, pubspec)
                /\ ( c.enabled /\ ~InstalledAndImported(c) ) => c.searches = 1

\* C40, amended: the same, the search of the second part being sent when
\* pubspec.yaml exists; without the file no request is sent and nothing is
\* returned, whatever the option.
C40_OptionGatesSearchWithManifest ==
    \A i \in DOMAIN calls :
        LET c == calls[i]
        IN  c.kind = "codeAction" =>
                /\ ~c.enabled =>
                      /\ c.searches = 0 /\ c.pc = "done"
                      /\ c.actions = LocalActions(c.word, pubspec)
                /\ ( c.enabled /\ ~InstalledAndImported(c) ) =>
                      c.searches = (IF pubspec.exists THEN 1 ELSE 0)
                /\ ~pubspec.exists =>
                      c.searches = 0 /\ c.result = "undefined" /\ c.actions = << >>

\* with a pubspec.yaml that declares http and a document that does not import
\* it, provideCodeActions has been called on http with the option off (the two
\* local actions, no search) and with the option on (one search, awaited)
C40_Witness ==
    /\ pubspec.exists
    /\ \E i, j \in DOMAIN calls :
          /\ calls[i].kind = "codeAction" /\ calls[j].kind = "codeAction"
          /\ calls[i].word = "http" /\ calls[j].word = "http"
          /\ ContentIncludes(pubspec, "http") /\ ~InstalledAndImported(calls[i])
          /\ ~calls[i].enabled /\ calls[i].searches = 0
          /\ Len(calls[i].actions) = 2 /\ calls[i].result = "actions"
          /\ calls[j].enabled /\ calls[j].searches = 1 /\ calls[j].pc = "search"

-----------------------------------------------------------------------------
(* The rows of a finished build, the executor and the editor, when the user may
   change the active editor while a call is running *)

\* the texts of the document of the second editor
OtherDocs == { <<"other", "\n">>, ImportStatement("http") \o <<"other", "\n">> }

\* the state once the first build of the session has written its rows, or the
\* row of its failure; showPackageQuickPick shows every package it has found
InitSwitch ==
    /\ variant \in {"search", "suggest"}
    /\ revision \in Revisions
    /\ doc \in StartDocs
    /\ manifest \in StartManifests
    /\ hasEditor = TRUE
    /\ hasWorkspace \in BOOLEAN
    /\ query0 \in Queries
    /\ variant = "suggest" =>
          /\ query0 # << >>
          /\ Len(Available(fetchMatchingPackages(query0, manifest, doc))) > 0
    /\ range0 = WordRange(doc)
    /\ selection = WordRange(doc)
    /\ docVersion = 0
    /\ open = TRUE
    /\ value = query0
    /\ showInstalledOnly = FALSE
    /\ filterIsOriginal = TRUE
    /\ timeout = NoTimer
    /\ builds = {}
    /\ busy = FALSE
    /\ LET packages == fetchMatchingPackages(query0, manifest, doc)
       IN  items \in { RenderedItems(IF variant = "suggest" /\ revision = "extension.ts"
                                     THEN Available(packages)
                                     ELSE packages, FALSE),
                       Placeholder("Error fetching packages") }
    /\ tasks = << >>
    /\ hist = [Hist0 EXCEPT !.lastArgs = query0, !.sinceCall = DebounceWait,
                            !.started = 1, !.maxCompleted = 1, !.itemsBy = 1]
    /\ pubspec = NoFile
    /\ registry = [hits |-> << >>, detail |-> "up"]
    /\ build = Build0
    /\ details = << >>
    /\ pubGetTimeout = [pending |-> FALSE, left |-> 0]
    /\ terminal = << >>
    /\ calls = << >>
    /\ activeTextEditor = "own"
    /\ otherEditor \in {[text |-> t, version |-> 0] : t \in OtherDocs}

\* onDidChangeSelection of showPackageQuickPick, after the clearing: every row
\* has a pkg, the one of a placeholder with the name "" and not installed
OnSelectRefactored(row) ==
    IF variant = "search" /\ ~hasEditor
    THEN << >>
    ELSE IF row.pkg.isInstalled
    THEN <<addImportStatement(Task("import", "select", row.pkg, TRUE, TargetRange),
                              hasEditor, doc, docVersion)>>
    ELSE <<runFlutterPubAdd(Task("add", "select", row.pkg, TRUE, TargetRange),
                            hasWorkspace)>>

\* the user accepts row i while the editor of the document is the active one
SelectRow(i) ==
    /\ open
    /\ activeTextEditor = "own"
    /\ i \in DOMAIN items
    /\ Len(tasks) < MaxTasks
    /\ Cleared
    /\ tasks' = tasks \o (IF revision = "part_000" THEN OnSelectRefactored(items[i])
                          ELSE OnSelect(items[i]))
    /\ UNCHANGED <<envVars, catalogVars, open, showInstalledOnly, filterIsOriginal,
                   timeout, builds, busy, manifest, doc, docVersion, selection>>

\* the user makes another editor the active one, or closes the active one,
\* while a process of a call is running
SwitchEditor(e) ==
    /\ e # activeTextEditor
    /\ \E i \in DOMAIN tasks : tasks[i].pc \in {"add", "remove", "get"}
    /\ activeTextEditor' = e
    /\ UNCHANGED <<variant, query0, range0, hasEditor, hasWorkspace, hostVars,
                   otherEditor, catalogVars, sessionVars, manifest, doc, docVersion,
                   selection, tasks, hist>>

\* the child process of task i exits; addImportStatement, when it is reached,
\* reads the text of the document it was handed and builds its edit for the
\* editor that is active at that moment
ProcessExitSwitch(i, code, stderr) ==
    /\ i \in DOMAIN tasks
    /\ tasks[i].pc \in {"add", "remove", "get"}
    /\ code = 0 => stderr = << >>
    /\ LET t     == tasks[i]
           after == IF t.pc = "get"
                    THEN AfterPubGet(t, code, stderr, activeTextEditor # "none", doc,
                                     IF activeTextEditor = "other"
                                     THEN otherEditor.version ELSE docVersion)
                    ELSE AfterFirstExec(t, code, stderr)
       IN  /\ tasks' = [tasks EXCEPT ![i] =
                   [after EXCEPT !.exits = Append(t.exits, code),
                                 !.stderrs = Append(t.stderrs, stderr),
                                 !.target = IF after.pc = "edit" THEN activeTextEditor
                                            ELSE @]]
           /\ manifest' = IF code = 0 /\ t.pc # "get"
                          THEN ManifestAfter(manifest, t.kind, t.pkg)
                          ELSE manifest
    /\ UNCHANGED <<envVars, catalogVars, sessionVars, doc, docVersion, selection, hist>>

\* editor.edit of task i settles, on the editor the edit was built for
EditSettledSwitch(i) ==
    /\ i \in DOMAIN tasks
    /\ tasks[i].pc = "edit"
    /\ LET t       == tasks[i]
           own     == t.target = "own"
           before  == IF own THEN doc ELSE otherEditor.text
           applied == t.version = (IF own THEN docVersion ELSE otherEditor.version)
           text    == ApplyImportEdit(before, t.pkg, t.range, t.insert)
           bump    == IF applied /\ text # before THEN 1 ELSE 0
       IN  /\ tasks' = [tasks EXCEPT ![i] = AfterEdit(t, applied)]
           /\ doc' = IF own /\ applied THEN text ELSE doc
           /\ docVersion' = IF own THEN docVersion + bump ELSE docVersion
           /\ selection' = IF own /\ applied
                           THEN SelectionAfter(doc, t.pkg, t.range, t.insert)
                           ELSE selection
           /\ otherEditor' = IF own THEN otherEditor
                             ELSE [text    |-> IF applied THEN text ELSE before,
                                   version |-> otherEditor.version + bump]
    /\ UNCHANGED <<variant, query0, range0, hasEditor, hasWorkspace, hostVars,
                   activeTextEditor, catalogVars, sessionVars, manifest, hist>>

NextSwitch ==
    \/ \E i \in 1..Len(items) : SelectRow(i)
    \/ \E i \in 1..Len(items) : activeTextEditor = "own" /\ ItemButton(i)
    \/ \E e \in {"own", "other", "none"} : SwitchEditor(e)
    \/ \E i \in 1..Len(tasks), code \in {0, 1}, stderr \in Stderrs :
          ProcessExitSwitch(i, code, stderr)
    \/ \E i \in 1..Len(tasks) : EditSettledSwitch(i)

SpecSwitch == InitSwitch /\ [][NextSwitch]_vars

\* C35: the edit of addImportStatement is made in the document the selection
\* was taken from, whichever editor is active when the add and the resync have
\* ended: the document of the other editor keeps its text, and the document
\* that is edited is the one whose text was searched for the import statement.
C35_EditsOwnDocument ==
    /\ otherEditor.version = 0
    /\ \A i \in DOMAIN tasks :
          ( tasks[i].pc = "edit" \/ tasks[i].edited ) => tasks[i].target = "own"

\* C36: selecting a row that is not a package (the row of a loading, empty or
\* failed build, whose pkg has no name) starts no process of the package
\* manager and makes no edit of the document.
C36_PlaceholderRowsInert ==
    \A i \in DOMAIN tasks :
        tasks[i].rec = NoPkg =>
            /\ tasks[i].procs = << >>
            /\ tasks[i].pc # "edit"
            /\ ~tasks[i].edited

\* C39: the reports of success are true when they are shown.  A call shows
\* "Package ... added and imported" only when its flutter pub add and its
\* flutter pub get have both exited with code zero and the document holds the
\* import line of the package at that moment, and "Imported package ..." only
\* when its edit has been applied.
C39_SuccessReportsTruthful ==
    [][ \A i \in DOMAIN tasks :
            LET t    == tasks'[i]
                shown == {t.msgs[k] : k \in (Len(tasks[i].msgs) + 1)..Len(t.msgs)}
            IN  /\ MsgAdded(t.pkg) \in shown =>
                      /\ t.exits = <<0, 0>>
                      /\ Includes(doc', ImportStatement(t.pkg))
                /\ MsgImported(t.pkg) \in shown => t.edited ]_vars

-----------------------------------------------------------------------------
(* The code action provider against the catalog build *)

\* C37: for every name and every pubspec.yaml, provideCodeActions takes the name
\* to be installed (the text of the file includes `name:`) exactly when a record
\* of that name in the result of fetchMatchingPackages is installed.
C37_ClassificationsAgree ==
    Delivered("all") =>
        \A k \in DOMAIN build.result :
            build.result[k].isInstalled <=>
                ( pubspec.exists /\ ContentIncludes(pubspec, build.result[k].name) )

====
